---- MODULE Spec2Model ----
(***************************************************************************)
(* A model of the training-target code of the AU R-CNN repository:         *)
(*   - ProposalTargetCreator.__call__                                      *)
(*       (time_axis_rcnn/model/time_segment_network/                       *)
(*        proposal_target_creater.py)                                      *)
(*   - FasterRCNNTrainChain.__call__                                       *)
(*       (AU_rcnn/links/model/faster_rcnn/faster_rcnn_train_chain.py)      *)
(*                                                                         *)
(* Conventions.  Arrays are sequences (1-based); array INDICES stored in   *)
(* the state are the 0-based numbers the Python code uses, so a[i] of the  *)
(* code is a[i + 1] here.  Reals are exact fractions <<num, den>> with     *)
(* den > 0.  np.random.choice(a, size=k, replace=False) is the choice of   *)
(* any k positions of a; the draw is listed in position order (every       *)
(* consumer of a draw indexes all its arrays with the same draw).          *)
(***************************************************************************)
EXTENDS Integers, Sequences, FiniteSets, TLC

(***************************************************************************)
(* Bounds of the model                                                     *)
(***************************************************************************)
MaxRois == 1
MaxSeg == 2
MaxNSample == 2

\* the batch indices of a mini-batch of the largest size modelled
BatchIds == {0, 1}

\* the keys of config.AU_SQUEEZE: the AU classes (columns of a label row)
AU_SQUEEZE == {0, 1}

(***************************************************************************)
(* Generic array helpers                                                   *)
(***************************************************************************)
Range0(n) == 0 .. (n - 1)

Min2(a, b) == IF a <= b THEN a ELSE b

Max2(a, b) == IF a >= b THEN a ELSE b

RECURSIVE SortedSeq(_)
\* the members of a finite set of integers, ascending
SortedSeq(S) ==
    IF S = {} THEN <<>>
    ELSE LET m == CHOOSE x \in S : \A y \in S : x <= y
         IN  <<m>> \o SortedSeq(S \ {m})

RECURSIVE Concatenate(_)
\* xp.concatenate(list_of_arrays, axis=0)
Concatenate(arrays) ==
    IF arrays = <<>> THEN <<>> ELSE Head(arrays) \o Concatenate(Tail(arrays))

SeqRange(s) == {s[i] : i \in 1 .. Len(s)}

\* a[index] for an array a and an array of 0-based indices (numpy fancy indexing)
Take(a, index) == [i \in 1 .. Len(index) |-> a[index[i] + 1]]

\* np.where(mask)[0]: the 0-based positions where a boolean array holds, ascending
Where(mask) == SortedSeq({i \in Range0(Len(mask)) : mask[i + 1]})

\* mutant: the draw is made with replacement
RandomChoice_WithReplacement(a, k) == [1 .. k -> SeqRange(a)]

\* np.random.choice(a, size=k, replace=False) for k <= len(a): every possible draw
RandomChoice(a, k) ==
    {Take(a, SortedSeq(T)) : T \in {U \in SUBSET Range0(Len(a)) : Cardinality(U) = k}}

(***************************************************************************)
(* Exact fractions                                                         *)
(***************************************************************************)
FracLT(x, y) == x[1] * y[2] < y[1] * x[2]

FracGE(x, y) == x[1] * y[2] >= y[1] * x[2]

\* np.round of the fraction n * r: round half to even
NpRound(n, r) ==
    LET num == n * r[1]
        den == r[2]
        fl  == num \div den
        rem == num % den
    IN  IF 2 * rem < den THEN fl
        ELSE IF 2 * rem > den THEN fl + 1
        ELSE IF fl % 2 = 0 THEN fl ELSE fl + 1

(***************************************************************************)
(* Segment geometry (bbox_util)                                            *)
(***************************************************************************)
\* IoU of two 1-D segments <<x_min, x_max>> as a fraction
SegmentIoU(a, b) ==
    LET tl    == Max2(a[1], b[1])
        br    == Min2(a[2], b[2])
        inter == IF tl < br THEN br - tl ELSE 0
    IN  <<inter, (a[2] - a[1]) + (b[2] - b[1]) - inter>>

\* segments_iou(a, b): the len(a) x len(b) matrix of IoUs
segments_iou(a, b) == [i \in 1 .. Len(a) |-> [j \in 1 .. Len(b) |-> SegmentIoU(a[i], b[j])]]

\* encode_segment_target(src, dst) for one pair: (centre offset / width, log(width ratio)).
\* The offset is the fraction d_ctr / src_width (doubled to stay integral); the
\* scale is kept as the fraction whose logarithm is taken.
EncodeOne(src, dst) ==
    LET src_w  == src[2] - src[1]
        dst_w  == dst[2] - dst[1]
        src_c2 == src[1] + src[2]
        dst_c2 == dst[1] + dst[2]
    IN  [dx |-> <<dst_c2 - src_c2, 2 * src_w>>, dw_log_of |-> <<dst_w, src_w>>]

encode_segment_target(src, dst) == [i \in 1 .. Len(src) |-> EncodeOne(src[i], dst[i])]

\* (loc - mean) / std with the default mean (0, 0) and std (0.1, 0.2)
Normalize(loc) ==
    [i \in 1 .. Len(loc) |->
        [dx |-> <<10 * loc[i].dx[1], loc[i].dx[2]>>, dw_times |-> 5, dw_log_of |-> loc[i].dw_log_of]]

\* iou.argmax(axis=1) for one row: 0-based position of the first maximum
ArgMax(row) ==
    CHOOSE j \in Range0(Len(row)) :
        /\ \A k \in Range0(Len(row)) : FracGE(row[j + 1], row[k + 1])
        /\ \A k \in Range0(j) : FracLT(row[k + 1], row[j + 1])

(***************************************************************************)
(* Input domains of ProposalTargetCreator                                  *)
(***************************************************************************)
RoiSegs == {<<0, 4>>, <<2, 4>>}

\* the valid ground-truth rows an item may hold: (segment, class id); the output
\* label of a positive is the class id + 1
GtRows ==
    { [seg |-> <<0, 2>>, label |-> 0],
      [seg |-> <<2, 4>>, label |-> 1] }

\* content of the rows past the valid count of a padded ground-truth array
PadSeg == <<0, 4>>

PadLabel == 1

PosRatios == {<<1, 2>>, <<1, 1>>}

\* (pos_iou_thresh, neg_iou_thresh_hi, neg_iou_thresh_lo): the defaults, and a
\* setting whose negative band overlaps the positives and starts above 0
Thresholds ==
    { [pos |-> <<1, 2>>, hi |-> <<1, 2>>, lo |-> <<0, 1>>],
      [pos |-> <<1, 2>>, hi |-> <<3, 4>>, lo |-> <<1, 4>>] }

Padded(real, pad) == [i \in 1 .. MaxSeg |-> IF i <= Len(real) THEN real[i] ELSE pad]

\* one batch item's ground truth: padded segments, padded labels, valid count
ItemGT ==
    UNION { { [segs |-> Padded([i \in 1 .. k |-> r[i].seg], PadSeg),
               labs |-> Padded([i \in 1 .. k |-> r[i].label], PadLabel),
               n |-> k] : r \in [1 .. k -> GtRows] } : k \in 0 .. MaxSeg }

RoiInputs ==
    UNION { { [segs |-> s, inds |-> t] : s \in [1 .. k -> RoiSegs], t \in [1 .. k -> BatchIds] } :
              k \in 0 .. MaxRois }

VARIABLES
    \* ProposalTargetCreator: configuration (self.*) and arguments
    n_sample, pos_ratio, thresh,
    rois, roi_indices, gt_segments, gt_labels, batch_seg_info,
    \* ProposalTargetCreator: loop state and result
    b_id, frames, batch_rois, batch_rois_indices, batch_labels, batch_roi_locs,
    ptc_pc, ptc_err, ptc_result

ptc_vars ==
    <<n_sample, pos_ratio, thresh, rois, roi_indices, gt_segments, gt_labels, batch_seg_info,
      b_id, frames, batch_rois, batch_rois_indices, batch_labels, batch_roi_locs,
      ptc_pc, ptc_err, ptc_result>>

VARIABLES
    \* FasterRCNNTrainChain: arguments
    bboxes, labels,
    \* FasterRCNNTrainChain: locals of __call__
    sample_roi_lst, sample_roi_index_lst, gt_roi_label, roi_score,
    neg_pick_count, union_gt, false_positive_index, neg_picked, pick_index, accuracy_pick_index,
    tc_pc, tc_err

tc_vars ==
    <<bboxes, labels, sample_roi_lst, sample_roi_index_lst, gt_roi_label, roi_score,
      neg_pick_count, union_gt, false_positive_index, neg_picked, pick_index, accuracy_pick_index,
      tc_pc, tc_err>>

VARIABLES
    \* the process-wide generator behind np.random.choice, and the state it had
    \* before any invocation drew from it
    np_random, np_random_seed,
    \* two invocations: the np.random.choice calls each will make, the position
    \* of its next call, and the draws it has obtained
    call_plan, call_next, call_drawn

rng_vars == <<np_random, np_random_seed, call_plan, call_next, call_drawn>>

VARIABLES
    \* AUDataset: attributes (self.*) and configuration
    L, two_stream_mode, result_data, box_num,
    \* AUDataset.get_example: argument, what the face cropper does for the RGB
    \* image, and locals
    data_index, crop_fails, AU_box_dict,
    flow_path_list, flow_face_list, ds_bbox, ds_label, all_del_idx,
    \* bbox and label after the deletions of lines 205-207
    filtered_bbox, filtered_label,
    ds_pc, ds_err, ds_result

ds_vars ==
    <<L, two_stream_mode, result_data, box_num, data_index, crop_fails, AU_box_dict,
      flow_path_list, flow_face_list, ds_bbox, ds_label, all_del_idx,
      filtered_bbox, filtered_label, ds_pc, ds_err, ds_result>>

vars == <<ptc_vars, tc_vars, rng_vars, ds_vars>>

mini_batch == Len(gt_segments)

NoResult == [returned |-> FALSE]

\* no FasterRCNNTrainChain call is in progress
TCIdle ==
    /\ bboxes = <<>>
    /\ labels = <<>>
    /\ sample_roi_lst = <<>>
    /\ sample_roi_index_lst = <<>>
    /\ gt_roi_label = <<>>
    /\ roi_score = <<>>
    /\ neg_pick_count = 0
    /\ union_gt = {}
    /\ false_positive_index = <<>>
    /\ neg_picked = <<>>
    /\ pick_index = <<>>
    /\ accuracy_pick_index = <<>>
    /\ tc_pc = "idle"
    /\ tc_err = "none"

\* no AUDataset.get_example call is in progress
DSIdle ==
    /\ L = 0
    /\ two_stream_mode = "rgb"
    /\ result_data = <<>>
    /\ box_num = 0
    /\ data_index = 0
    /\ crop_fails = FALSE
    /\ AU_box_dict = <<>>
    /\ flow_face_list = <<>>
    /\ ds_bbox = <<>>
    /\ ds_label = <<>>
    /\ all_del_idx = <<>>
    /\ filtered_bbox = <<>>
    /\ filtered_label = <<>>
    /\ flow_path_list = <<>>
    /\ ds_pc = "idle"
    /\ ds_err = "none"
    /\ ds_result = [returned |-> FALSE]

\* no pair of invocations is being followed
RNGIdle ==
    /\ np_random = 0
    /\ np_random_seed = 0
    /\ call_plan = <<>>
    /\ call_next = <<>>
    /\ call_drawn = <<>>

\* no ProposalTargetCreator call is in progress
PTCIdle ==
    /\ n_sample = 0
    /\ pos_ratio = <<0, 1>>
    /\ thresh = [pos |-> <<1, 2>>, hi |-> <<1, 2>>, lo |-> <<0, 1>>]
    /\ rois = <<>>
    /\ roi_indices = <<>>
    /\ gt_segments = <<>>
    /\ gt_labels = <<>>
    /\ batch_seg_info = <<>>
    /\ b_id = 0
    /\ frames = <<>>
    /\ batch_rois = <<>>
    /\ batch_rois_indices = <<>>
    /\ batch_labels = <<>>
    /\ batch_roi_locs = <<>>
    /\ ptc_pc = "idle"
    /\ ptc_err = "none"
    /\ ptc_result = [returned |-> FALSE]

\* the locals of __call__ when the call is entered
PTCEntered ==
    /\ b_id = 0
    /\ frames = <<>>
    /\ batch_rois = <<>>
    /\ batch_rois_indices = <<>>
    /\ batch_labels = <<>>
    /\ batch_roi_locs = <<>>
    /\ ptc_pc = "start"
    /\ ptc_err = "none"
    /\ ptc_result = NoResult

\* a call on a mini-batch of one or two items whose arrays agree in shape
PTCInit ==
    /\ TCIdle
    /\ RNGIdle
    /\ DSIdle
    /\ n_sample \in 1 .. MaxNSample
    /\ pos_ratio \in PosRatios
    /\ thresh \in Thresholds
    /\ \E r \in RoiInputs : rois = r.segs /\ roi_indices = r.inds
    /\ \E mb \in 1 .. Cardinality(BatchIds) : \E g \in [1 .. mb -> ItemGT] :
          /\ gt_segments = [b \in 1 .. mb |-> g[b].segs]
          /\ gt_labels = [b \in 1 .. mb |-> g[b].labs]
          /\ batch_seg_info = [b \in 1 .. mb |-> <<0, g[b].n>>]
    /\ PTCEntered

(***************************************************************************)
(* ProposalTargetCreator.__call__: one iteration of the loop over b_id     *)
(***************************************************************************)
\* mutant: at least one row is always taken
ValidRows_AtLeastOne(padded, seg_number) == SubSeq(padded, 1, Max2(1, Min2(seg_number, Len(padded))))

\* gt_segments[b_id][:int(seg_number)] and labels[b_id][:int(seg_number)]
ValidRows(padded, seg_number) == SubSeq(padded, 1, Min2(seg_number, Len(padded)))

\* mutant: the regions are not filtered by batch index
RoisOfItem_Unfiltered(all, indices, b) == all

\* rois[np.where(roi_indices == b_id)]
RoisOfItem(all, indices, b) ==
    Take(all, Where([i \in 1 .. Len(indices) |-> indices[i] = b]))

\* pos_roi_this_timeline = int(min(pos_roi_per_timeline, pos_index.size))
PosRoiThisTimeline(pos_roi_per_timeline, pos_size) == Min2(pos_roi_per_timeline, pos_size)

\* mutant: the positives already taken are not subtracted
NegRoiPerThisTimeline_NoSubtract(n, pos_roi_this_timeline, neg_size) == Min2(n, neg_size)

\* neg_roi_per_this_timeline = int(min(n_sample - pos_roi_this_timeline, neg_index.size))
NegRoiPerThisTimeline(n, pos_roi_this_timeline, neg_size) ==
    Min2(n - pos_roi_this_timeline, neg_size)

\* mutant: the zeroing starts one sample late
ForceBackground_OffByOne(label, pos_roi_this_timeline) ==
    [i \in 1 .. Len(label) |-> IF i - 1 > pos_roi_this_timeline THEN 0 ELSE label[i]]

\* gt_roi_label[pos_roi_this_timeline:] = 0
ForceBackground(label, pos_roi_this_timeline) ==
    [i \in 1 .. Len(label) |-> IF i - 1 >= pos_roi_this_timeline THEN 0 ELSE label[i]]

\* mutant: the eligible indices are all kept
ChoiceIfAny_KeepAll(index, k) == {index}

\* if index.size > 0: index = np.random.choice(index, size=k, replace=False)
ChoiceIfAny(index, k) == IF Len(index) > 0 THEN RandomChoice(index, k) ELSE {index}

\* mutant: an IoU equal to the threshold is no positive
IsPos_Strict(iou) == FracLT(thresh.pos, iou)

\* max_iou >= self.pos_iou_thresh
IsPos(iou) == FracGE(iou, thresh.pos)

\* (max_iou < self.neg_iou_thresh_hi) & (max_iou >= self.neg_iou_thresh_lo)
IsNeg(iou) == FracLT(iou, thresh.hi) /\ FracGE(iou, thresh.lo)

RaisePTC(err) ==
    /\ ptc_pc' = "raised"
    /\ ptc_err' = err
    /\ UNCHANGED <<b_id, frames, batch_rois, batch_rois_indices, batch_labels, batch_roi_locs,
                   ptc_result>>

\* lines 95-106: the assertions on the arguments, before the loop
EnterPTC ==
    /\ ptc_pc = "start"
    /\ IF mini_batch = Len(gt_labels)
       THEN /\ ptc_pc' = "loop"
            /\ UNCHANGED <<b_id, frames, batch_rois, batch_rois_indices, batch_labels,
                           batch_roi_locs, ptc_err, ptc_result>>
       ELSE RaisePTC("AssertionError")
    /\ UNCHANGED <<n_sample, pos_ratio, thresh, rois, roi_indices, gt_segments, gt_labels,
                   batch_seg_info>>
    /\ UNCHANGED <<tc_vars, rng_vars, ds_vars>>

\* mutant: the ground truth is not added to the candidates
AppendGroundTruth_Omitted(item_rois, gt_seg) == item_rois

\* all_rois = np.concatenate((all_rois, gt_seg), axis=0)
AppendGroundTruth(item_rois, gt_seg) == item_rois \o gt_seg

\* mutant: the background offset is forgotten
GtRoiLabel_NoOffset(label, gt_assignment) ==
    [i \in 1 .. Len(gt_assignment) |-> label[gt_assignment[i] + 1]]

\* gt_roi_label = label[gt_assignment] + 1
GtRoiLabel(label, gt_assignment) ==
    [i \in 1 .. Len(gt_assignment) |-> label[gt_assignment[i] + 1] + 1]

\* lines 108-119 for item b: the valid ground truth, the candidate pool and the IoU matrix
ItemPool(b) ==
    LET seg_number == batch_seg_info[b + 1][2]
        gt_seg == ValidRows(gt_segments[b + 1], seg_number)
        all_rois == AppendGroundTruth(RoisOfItem(rois, roi_indices, b), gt_seg)
    IN  [gt_seg |-> gt_seg,
         label |-> ValidRows(gt_labels[b + 1], seg_number),
         all_rois |-> all_rois,
         roi_indice_this_timeline |-> [i \in 1 .. Len(all_rois) |-> b],
         pos_roi_per_timeline |-> NpRound(n_sample, pos_ratio),
         iou |-> segments_iou(all_rois, gt_seg)]

\* lines 120-136 for a pool with at least one ground-truth column
ItemMatch(pool) ==
    LET gt_assignment == [i \in 1 .. Len(pool.iou) |-> ArgMax(pool.iou[i])]
        max_iou == [i \in 1 .. Len(pool.iou) |-> pool.iou[i][ArgMax(pool.iou[i]) + 1]]
        pos_index == Where([i \in 1 .. Len(max_iou) |-> IsPos(max_iou[i])])
        neg_index == Where([i \in 1 .. Len(max_iou) |-> IsNeg(max_iou[i])])
        pos_roi_this_timeline == PosRoiThisTimeline(pool.pos_roi_per_timeline, Len(pos_index))
        indexable == \A i \in 1 .. Len(gt_assignment) : gt_assignment[i] < Len(pool.label)
    IN  [gt_assignment |-> gt_assignment,
         max_iou |-> max_iou,
         \* label[gt_assignment] raises IndexError for an index past the end of label
         indexable |-> indexable,
         gt_roi_label |-> IF indexable THEN GtRoiLabel(pool.label, gt_assignment) ELSE <<>>,
         pos_index |-> pos_index,
         pos_roi_this_timeline |-> pos_roi_this_timeline,
         neg_index |-> neg_index,
         neg_roi_per_this_timeline |->
             NegRoiPerThisTimeline(n_sample, pos_roi_this_timeline, Len(neg_index))]

\* lines 107-164: one iteration of the loop.  (\E x \in {e} binds x to the value of e.)
ProcessItem ==
    /\ ptc_pc = "loop"
    /\ b_id < mini_batch
    /\ \E pool \in {ItemPool(b_id)} :
         IF Len(pool.gt_seg) = 0
         THEN \* iou has no columns: iou.argmax(axis=1) raises ValueError
              RaisePTC("ValueError")
         ELSE
           \E m \in {ItemMatch(pool)} :
           IF ~ m.indexable
           THEN RaisePTC("IndexError")
           ELSE
           \E pos_index \in ChoiceIfAny(m.pos_index, m.pos_roi_this_timeline) :
           \E neg_index \in ChoiceIfAny(m.neg_index, m.neg_roi_per_this_timeline) :
           \E keep_index \in {pos_index \o neg_index} :
           \E sample_roi \in {Take(pool.all_rois, keep_index)} :
              /\ frames' = Append(frames,
                     [b_id |-> b_id, gt_seg |-> pool.gt_seg, label |-> pool.label,
                      all_rois |-> pool.all_rois, gt_assignment |-> m.gt_assignment,
                      max_iou |-> m.max_iou,
                      pos_roi_per_timeline |-> pool.pos_roi_per_timeline,
                      pos_available |-> m.pos_index, neg_available |-> m.neg_index,
                      pos_roi_this_timeline |-> m.pos_roi_this_timeline,
                      pos_index |-> pos_index, neg_index |-> neg_index,
                      keep_index |-> keep_index])
              /\ batch_rois' = Append(batch_rois, sample_roi)
              /\ batch_rois_indices' =
                     Append(batch_rois_indices, Take(pool.roi_indice_this_timeline, keep_index))
              /\ batch_labels' =
                     Append(batch_labels,
                            ForceBackground(Take(m.gt_roi_label, keep_index), m.pos_roi_this_timeline))
              /\ batch_roi_locs' =
                     Append(batch_roi_locs,
                            Normalize(encode_segment_target(
                                sample_roi, Take(pool.gt_seg, Take(m.gt_assignment, keep_index)))))
              /\ b_id' = b_id + 1
              /\ UNCHANGED <<ptc_pc, ptc_err, ptc_result>>
    /\ UNCHANGED <<n_sample, pos_ratio, thresh, rois, roi_indices, gt_segments, gt_labels,
                   batch_seg_info>>
    /\ UNCHANGED <<tc_vars, rng_vars, ds_vars>>

\* the return statement after the loop
ReturnPTC ==
    /\ ptc_pc = "loop"
    /\ b_id = mini_batch
    /\ ptc_pc' = "returned"
    /\ ptc_result' = [returned |-> TRUE,
                      rois |-> Concatenate(batch_rois),
                      roi_indices |-> Concatenate(batch_rois_indices),
                      roi_locs |-> Concatenate(batch_roi_locs),
                      labels |-> Concatenate(batch_labels)]
    /\ UNCHANGED <<n_sample, pos_ratio, thresh, rois, roi_indices, gt_segments, gt_labels,
                   batch_seg_info, b_id, frames, batch_rois, batch_rois_indices, batch_labels,
                   batch_roi_locs, ptc_err>>
    /\ UNCHANGED <<tc_vars, rng_vars, ds_vars>>

PTCNext == EnterPTC \/ ProcessItem \/ ReturnPTC

SpecPTC == PTCInit /\ [][PTCNext]_vars

TypeOKPTC == ptc_pc \in {"start", "loop", "returned", "raised"}

(***************************************************************************)
(* ProposalTargetCreator.__call__ on a single batch item, over a wider     *)
(* range of candidates and settings                                        *)
(***************************************************************************)
ItemRoiSegs == RoiSegs \cup {<<1, 4>>}

\* the default pos_ratio 0.25 besides the others
ItemPosRatios == PosRatios \cup {<<1, 4>>}

\* besides the others, a pos_iou_thresh no IoU can reach
ItemThresholds == Thresholds \cup {[pos |-> <<3, 2>>, hi |-> <<1, 2>>, lo |-> <<0, 1>>]}

PTCInitItem ==
    /\ TCIdle
    /\ RNGIdle
    /\ DSIdle
    /\ n_sample \in 1 .. (MaxNSample + 1)
    /\ pos_ratio \in ItemPosRatios
    /\ thresh \in ItemThresholds
    /\ \E k \in 0 .. (MaxRois + 1) : \E s \in [1 .. k -> ItemRoiSegs] :
          /\ rois = s
          /\ roi_indices = [i \in 1 .. k |-> 0]
    /\ \E g \in ItemGT :
          /\ gt_segments = <<g.segs>>
          /\ gt_labels = <<g.labs>>
          /\ batch_seg_info = <<(<<0, g.n>>)>>
    /\ PTCEntered

SpecPTCItem == PTCInitItem /\ [][PTCNext]_vars

(***************************************************************************)
(* ProposalTargetCreator.__call__ on arguments whose label array does not  *)
(* have the shape of the ground-truth segment array                        *)
(***************************************************************************)
LabelShapes == {"short_rows", "long_rows", "short_batch", "long_batch"}

\* the label array labs with a row count or a batch size changed
Reshaped(labs, shape) ==
    CASE shape = "short_rows" -> [b \in 1 .. Len(labs) |-> SubSeq(labs[b], 1, Len(labs[b]) - 1)]
      [] shape = "long_rows" -> [b \in 1 .. Len(labs) |-> Append(labs[b], PadLabel)]
      [] shape = "short_batch" -> SubSeq(labs, 1, Len(labs) - 1)
      [] shape = "long_batch" -> Append(labs, labs[1])

PTCInitShape ==
    /\ TCIdle
    /\ RNGIdle
    /\ DSIdle
    /\ n_sample = MaxNSample
    /\ pos_ratio \in PosRatios
    /\ thresh = [pos |-> <<1, 2>>, hi |-> <<1, 2>>, lo |-> <<0, 1>>]
    /\ \E r \in RoiInputs : rois = r.segs /\ roi_indices = r.inds
    /\ \E mb \in 1 .. Cardinality(BatchIds) : \E g \in [1 .. mb -> ItemGT] :
       \E shape \in LabelShapes :
          /\ gt_segments = [b \in 1 .. mb |-> g[b].segs]
          /\ gt_labels = Reshaped([b \in 1 .. mb |-> g[b].labs], shape)
          /\ batch_seg_info = [b \in 1 .. mb |-> <<0, g[b].n>>]
    /\ PTCEntered

SpecPTCShape == PTCInitShape /\ [][PTCNext]_vars

(***************************************************************************)
(* FasterRCNNTrainChain.__call__                                           *)
(***************************************************************************)
\* self.neg_pos_ratio
neg_pos_ratio == 3

\* len(config.AU_SQUEEZE)
NumClasses == Cardinality(AU_SQUEEZE)

\* rows per batch item of the padded bboxes / labels arguments
MaxBox == 2

\* the padding value of the collate step
Filler == -99

FillerBox == [c \in 1 .. 4 |-> Filler]

FillerLabel == [c \in 1 .. NumClasses |-> Filler]

\* the real box at row j of item n: every real row has its own box, so that a
\* box identifies the row it came from
RealBox(n, j) == <<j, n, j + 4, n + 4>>

\* real label rows: nothing present; AU 0 present; last AU ignored (-1)
LabelRows ==
    { [c \in 1 .. NumClasses |-> 0],
      [c \in 1 .. NumClasses |-> IF c = 1 THEN 1 ELSE 0],
      [c \in 1 .. NumClasses |-> IF c = NumClasses THEN -1 ELSE 0] }

\* score rows of the head: all at the threshold 0; first class above and the
\* rest below; all above
ScoreRows ==
    { [c \in 1 .. NumClasses |-> 0],
      [c \in 1 .. NumClasses |-> IF c = 1 THEN 1 ELSE -1],
      [c \in 1 .. NumClasses |-> 1] }

\* the score matrices the head may return for n rows: one score row for the
\* first region, one for all the others
ScoreMatrices(n) ==
    { [r \in 1 .. n |-> IF r = 1 THEN a ELSE b] : a \in ScoreRows, b \in ScoreRows }

\* the label arrays of one padded batch item: k real rows, then filler rows
ItemLabels ==
    UNION { { [j \in 1 .. MaxBox |-> IF j <= k THEN l[j] ELSE FillerLabel] :
                l \in [1 .. k -> LabelRows] } : k \in 0 .. MaxBox }

\* the box array that goes with a label array: real boxes beside real labels
ItemBoxes(n, item_labels) ==
    [j \in 1 .. MaxBox |-> IF item_labels[j] = FillerLabel THEN FillerBox ELSE RealBox(n, j)]

TCInit ==
    /\ PTCIdle
    /\ RNGIdle
    /\ DSIdle
    /\ \E batch_size \in 1 .. Cardinality(BatchIds) : \E l \in [1 .. batch_size -> ItemLabels] :
          /\ labels = l
          /\ bboxes = [n \in 1 .. batch_size |-> ItemBoxes(n - 1, l[n])]
    /\ sample_roi_lst = <<>>
    /\ sample_roi_index_lst = <<>>
    /\ gt_roi_label = <<>>
    /\ roi_score = <<>>
    /\ neg_pick_count = 0
    /\ union_gt = {}
    /\ false_positive_index = <<>>
    /\ neg_picked = <<>>
    /\ pick_index = <<>>
    /\ accuracy_pick_index = <<>>
    /\ tc_pc = "start"
    /\ tc_err = "none"

\* a[a != v] on a 2-D array: the elements that differ from v, in row-major order
MaskedNotEqual(a, v) == SelectSeq(Concatenate(a), LAMBDA x : x # v)

\* flat.reshape(-1, width) when len(flat) is a multiple of width
Reshape(flat, width) ==
    [i \in 1 .. (Len(flat) \div width) |-> SubSeq(flat, (i - 1) * width + 1, i * width)]

\* lines 85-90 for batch item n (0-based): the stripped boxes and labels, or the error raised
StripItem(n) ==
    LET flat_bbox == MaskedNotEqual(bboxes[n + 1], Filler)
        flat_label == MaskedNotEqual(labels[n + 1], Filler)
    IN  IF Len(flat_bbox) % 4 # 0 \/ Len(flat_label) % NumClasses # 0
        THEN [err |-> "ValueError", bbox |-> <<>>, label |-> <<>>]
        ELSE LET bbox == Reshape(flat_bbox, 4)
                 label == Reshape(flat_label, NumClasses)
             IN  IF Len(label) = Len(bbox) /\ Len(bbox) > 0
                 THEN [err |-> "none", bbox |-> bbox, label |-> label]
                 ELSE [err |-> "AssertionError", bbox |-> <<>>, label |-> <<>>]

RaiseTC(err) ==
    /\ tc_pc' = "raised"
    /\ tc_err' = err

\* lines 80-105: sample_roi_lst, sample_roi_index_lst and gt_roi_label
BuildRoiList ==
    /\ tc_pc = "start"
    /\ LET batch_size == Len(bboxes)
           failing == {n \in Range0(batch_size) : StripItem(n).err # "none"}
       IN  IF batch_size > 1
           THEN IF failing # {}
                THEN /\ RaiseTC(StripItem(CHOOSE n \in failing : \A m \in failing : n <= m).err)
                     /\ UNCHANGED <<sample_roi_lst, sample_roi_index_lst, gt_roi_label>>
                ELSE /\ sample_roi_lst' =
                            Concatenate([n \in 1 .. batch_size |-> StripItem(n - 1).bbox])
                     /\ gt_roi_label' =
                            Concatenate([n \in 1 .. batch_size |-> StripItem(n - 1).label])
                     /\ sample_roi_index_lst' =
                            Concatenate([n \in 1 .. batch_size |->
                                [j \in 1 .. Len(StripItem(n - 1).bbox) |-> n - 1]])
                     /\ tc_pc' = "built"
                     /\ UNCHANGED tc_err
           ELSE /\ sample_roi_lst' = bboxes[1]
                /\ gt_roi_label' = labels[1]
                /\ sample_roi_index_lst' = [j \in 1 .. Len(bboxes[1]) |-> 0]
                /\ tc_pc' = "built"
                /\ UNCHANGED tc_err
    /\ UNCHANGED <<bboxes, labels, roi_score, neg_pick_count, union_gt, false_positive_index,
                   neg_picked, pick_index, accuracy_pick_index>>
    /\ UNCHANGED <<ptc_vars, rng_vars, ds_vars>>

\* lines 107-110: the head scores every region of sample_roi_lst
HeadScores ==
    /\ tc_pc = "built"
    /\ \E score \in ScoreMatrices(Len(sample_roi_lst)) :
          /\ roi_score' = score
          /\ IF Len(score) = Len(gt_roi_label)
             THEN tc_pc' = "scored" /\ UNCHANGED tc_err
             ELSE RaiseTC("AssertionError")
    /\ UNCHANGED <<bboxes, labels, sample_roi_lst, sample_roi_index_lst, gt_roi_label,
                   neg_pick_count, union_gt, false_positive_index, neg_picked, pick_index,
                   accuracy_pick_index>>
    /\ UNCHANGED <<ptc_vars, rng_vars, ds_vars>>

\* the (row, column) positions of a matrix, 0-based
Entries(m) == {<<r, c>> : r \in Range0(Len(m)), c \in Range0(NumClasses)}

At(m, e) == m[e[1] + 1][e[2] + 1]

\* mutant: only the entries above 0 are taken
NonZero_Positive(m) == {e \in Entries(m) : At(m, e) > 0}

\* np.nonzero(m) as a set of (row, column) pairs
NonZero(m) == {e \in Entries(m) : At(m, e) # 0}

\* mutant: a score at the threshold counts as predicted positive
Binarize_AtLeastZero(score) ==
    [r \in 1 .. Len(score) |-> [c \in 1 .. NumClasses |-> IF score[r][c] >= 0 THEN 1 ELSE 0]]

\* (roi_score > 0).astype(np.int32)
Binarize(score) == [r \in 1 .. Len(score) |-> [c \in 1 .. NumClasses |-> IF score[r][c] > 0 THEN 1 ELSE 0]]

\* mutant: no guard for a label matrix without positives
LenGtPos_NoGuard(n_gt_pos) == n_gt_pos

\* len_gt_pos = len(gt_pos_index[0]) if len(gt_pos_index[0]) > 0 else 1
LenGtPos(n_gt_pos) == IF n_gt_pos > 0 THEN n_gt_pos ELSE 1

\* the list of a set of (row, column) pairs, listed in row-major order
EntryList(S) ==
    LET key(e) == e[1] * NumClasses + e[2]
        keys == SortedSeq({key(e) : e \in S})
    IN  [i \in 1 .. Len(keys) |-> <<keys[i] \div NumClasses, keys[i] % NumClasses>>]

\* mutant: the pick list starts empty
InitialPickList_Empty(gt_pos_index_set) == <<>>

\* gt_pos_index_lst = list(gt_pos_index_set)
InitialPickList(gt_pos_index_set) == EntryList(gt_pos_index_set)

\* mutant: the ground-truth positives are not taken out
FalsePositives_AllPredicted(pred_pos_index_set, gt_pos_index_set) == EntryList(pred_pos_index_set)

\* false_positive_index = list(pred_pos_index_set - gt_pos_index_set)
FalsePositives(pred_pos_index_set, gt_pos_index_set) == EntryList(pred_pos_index_set \ gt_pos_index_set)

\* mutant: the entries already picked stay in the pool
NegativePool_KeepPicked(label, gt_pos_index_lst) ==
    EntryList({e \in Entries(label) : At(label, e) = 0})

\* gt_neg_index_set - set(gt_pos_index_lst), for gt_neg_index = np.where(label == 0)
NegativePool(label, gt_pos_index_lst) ==
    EntryList({e \in Entries(label) : At(label, e) = 0} \ SeqRange(gt_pos_index_lst))

\* mutant: the draw is clamped to the population instead of failing
RestDrawSize_Clamped(rest_pick_count, population) == Min2(rest_pick_count, population)

\* size=rest_pick_count of the np.random.choice call at line 136
RestDrawSize(rest_pick_count, population) == rest_pick_count

\* lines 141-144
AccuracyPickIndex(union, label) == IF union = {} THEN EntryList(NonZero(label)) ELSE EntryList(union)

\* lines 113-146: the loss-index and accuracy-index selection
SelectIndices ==
    /\ tc_pc = "scored"
    /\ LET gt_pos_index_set == NonZero(gt_roi_label)
           pred_pos_index_set == NonZero(Binarize(roi_score))
           count == neg_pos_ratio * LenGtPos(Cardinality(gt_pos_index_set))
           union == gt_pos_index_set \cup pred_pos_index_set
           fp == FalsePositives(pred_pos_index_set, gt_pos_index_set)
           gt_pos_index_lst == InitialPickList(gt_pos_index_set)
           Finish(negatives) ==
               /\ neg_picked' = negatives
               /\ pick_index' = gt_pos_index_lst \o negatives
               /\ accuracy_pick_index' = AccuracyPickIndex(union, gt_roi_label)
               /\ IF gt_pos_index_lst \o negatives = <<>>
                  THEN RaiseTC("IndexError")
                  ELSE tc_pc' = "done" /\ UNCHANGED tc_err
       IN  /\ neg_pick_count' = count
           /\ union_gt' = union
           /\ false_positive_index' = fp
           /\ IF count <= Len(fp)
              THEN \E choice_fp \in RandomChoice(fp, count) : Finish(choice_fp)
              ELSE LET rest_pick_count == count - Len(fp)
                       gt_neg_index_array == NegativePool(gt_roi_label, gt_pos_index_lst \o fp)
                       size == RestDrawSize(rest_pick_count, Len(gt_neg_index_array))
                   IN  IF size > Len(gt_neg_index_array)
                       THEN \* np.random.choice cannot draw that many without replacement
                            /\ RaiseTC("ValueError")
                            /\ UNCHANGED <<neg_picked, pick_index, accuracy_pick_index>>
                       ELSE \E choice_rest \in RandomChoice(gt_neg_index_array, size) :
                                Finish(fp \o choice_rest)
    /\ UNCHANGED <<bboxes, labels, sample_roi_lst, sample_roi_index_lst, gt_roi_label, roi_score>>
    /\ UNCHANGED <<ptc_vars, rng_vars, ds_vars>>

TCNext == BuildRoiList \/ HeadScores \/ SelectIndices

SpecTC == TCInit /\ [][TCNext]_vars

TypeOKTC == tc_pc \in {"start", "built", "scored", "done", "raised"}

(***************************************************************************)
(* Two invocations and the generator of np.random.choice.  Both classes    *)
(* draw with np.random.choice, that is from the one generator of the numpy *)
(* module.  An invocation is followed through its np.random.choice calls   *)
(* only: what it asks for depends on its own arguments, what it gets is    *)
(* decided by the state of the generator at the time of the call.          *)
(***************************************************************************)
\* largest population of a draw
MaxPop == 3

\* largest state the generator starts in
MaxSeed == 2

Calls == {1, 2}

\* the draw of k out of range(n) that a generator in the given state returns:
\* a function of the state, different states giving different draws
Choice(n, k, state) == [i \in 1 .. k |-> (state + i - 1) % n]

\* the state of the generator after a draw
Advance(state) == state + 1

\* the np.random.choice calls of ProposalTargetCreator.__call__ for one item with
\* n_pos eligible positives and n_neg eligible negatives (lines 125-139), for
\* n_sample = MaxNSample and pos_roi_per_timeline = 1
AssignPlan(n_pos, n_neg) ==
    LET pos_roi_this_timeline == PosRoiThisTimeline(1, n_pos)
        neg_roi_per_this_timeline == NegRoiPerThisTimeline(MaxNSample, pos_roi_this_timeline, n_neg)
    IN  (IF n_pos > 0 THEN <<[n |-> n_pos, k |-> pos_roi_this_timeline]>> ELSE <<>>)
        \o (IF n_neg > 0 THEN <<[n |-> n_neg, k |-> neg_roi_per_this_timeline]>> ELSE <<>>)

\* the np.random.choice call of FasterRCNNTrainChain.__call__ for n_fp false
\* positives and n_zero label-0 entries (lines 126-137), without ground-truth
\* positives (neg_pick_count = neg_pos_ratio)
SelectPlan(n_fp, n_zero) ==
    IF neg_pos_ratio <= n_fp
    THEN <<[n |-> n_fp, k |-> neg_pos_ratio]>>
    ELSE <<[n |-> n_zero - n_fp, k |-> neg_pos_ratio - n_fp]>>

\* what an invocation may ask of the generator
Plans ==
    {AssignPlan(n_pos, n_neg) : n_pos \in 0 .. MaxPop, n_neg \in 0 .. MaxPop}
    \cup {SelectPlan(n_fp, n_zero) : n_fp \in 0 .. MaxPop, n_zero \in neg_pos_ratio .. (neg_pos_ratio + 1)}

RNGInit ==
    /\ PTCIdle
    /\ TCIdle
    /\ DSIdle
    /\ np_random_seed \in 0 .. MaxSeed
    /\ np_random = np_random_seed
    /\ call_plan \in [Calls -> Plans]
    /\ call_next = [c \in Calls |-> 1]
    /\ call_drawn = [c \in Calls |-> <<>>]

\* invocation c makes its next np.random.choice call
Draw(c) ==
    /\ call_next[c] <= Len(call_plan[c])
    /\ LET request == call_plan[c][call_next[c]]
       IN  call_drawn' = [call_drawn EXCEPT ![c] = Append(@, Choice(request.n, request.k, np_random))]
    /\ np_random' = Advance(np_random)
    /\ call_next' = [call_next EXCEPT ![c] = @ + 1]
    /\ UNCHANGED <<np_random_seed, call_plan>>
    /\ UNCHANGED <<ptc_vars, tc_vars, ds_vars>>

RNGNext == \E c \in Calls : Draw(c)

SpecRNG == RNGInit /\ [][RNGNext]_vars

\* invocation c has made all its draws
Finished(c) == call_next[c] > Len(call_plan[c])

RECURSIVE AloneDraws(_, _)
\* the draws the first j calls of invocation c obtain when no other invocation
\* draws from the generator
AloneDraws(c, j) ==
    IF j = 0 THEN <<>>
    ELSE Append(AloneDraws(c, j - 1),
                Choice(call_plan[c][j].n, call_plan[c][j].k, np_random_seed + (j - 1)))

\* C11: two invocations share no mutable state: whatever the interleaving, the
\* draws (hence the result) of an invocation are those it obtains when the
\* other invocation does not run.
C11_ResultAsIfAlone ==
    \A c \in Calls : Finished(c) => call_drawn[c] = AloneDraws(c, Len(call_plan[c]))

\* C11, what does hold: an invocation obtains the draws it asked for, in the
\* order it asked, and nothing but the generator is changed by the other one.
C11_OnlyTheGeneratorIsShared ==
    \A c \in Calls :
        /\ Len(call_drawn[c]) = call_next[c] - 1
        /\ \A j \in 1 .. Len(call_drawn[c]) :
              /\ Len(call_drawn[c][j]) = call_plan[c][j].k
              /\ Cardinality(SeqRange(call_drawn[c][j])) = call_plan[c][j].k
              /\ SeqRange(call_drawn[c][j]) \subseteq Range0(call_plan[c][j].n)

(***************************************************************************)
(* AUDataset.get_example (two_stream_rgb_flow/datasets/AU_dataset.py).     *)
(* An entry of result_data is represented by its sequence key, a flow      *)
(* frame by the position of the entry it was read from, and the label row  *)
(* of a box by the position in AU_box_dict of the entry the box belongs to *)
(* (all boxes of an entry get the same label row).                         *)
(***************************************************************************)
\* largest number of entries of AU_box_dict
MaxAU == 2

\* largest self.L
MaxL == 4

TwoStreamModes == {"rgb", "optical_flow", "rgb_flow"}

\* values of config.BOX_NUM[database]
BoxNums == {2, 3}

\* config.IMG_SIZE (scaled down)
IMG_SIZE == <<20, 20>>

\* the sequence keys of the entries of result_data, which __init__ has sorted
ResultData == {<<"a", "a", "b">>, <<"a", "b", "b">>, <<"a", "a", "a", "b", "b">>}

\* the frame np.pad(..., 'mean') appends
MeanFrame == -1

\* the label row of the whole image in the fallback
ImageLabel == 0

\* a box <<y_min, x_min, y_max, x_max>> of entry e at position q of its list:
\* below 1% of the image area when small, far above when big
Box(e, q, size) == IF size = "small" THEN <<e, q, e + 1, q + 1>> ELSE <<e, q, e + 10, q + 10>>

\* FaceMaskCropper.calculate_area
calculate_area(y_min, x_min, y_max, x_max) == (y_max - y_min) * (x_max - x_min)

\* the entries AU_box_dict may hold: one or two boxes; a symmetric AU has one
BoxDictEntries ==
    {en \in [symmetric : BOOLEAN,
             sizes : UNION {[1 .. k -> {"small", "big"}] : k \in 1 .. 2}] :
        en.symmetric => Len(en.sizes) = 1}

AUBoxDicts ==
    UNION { { [e \in 1 .. n |->
                 [symmetric |-> en[e].symmetric,
                  box_list |-> [q \in 1 .. Len(en[e].sizes) |-> Box(e, q, en[e].sizes[q])]]] :
              en \in [1 .. n -> BoxDictEntries] } : n \in 0 .. MaxAU }

DSInit ==
    /\ PTCIdle
    /\ TCIdle
    /\ RNGIdle
    /\ L \in 1 .. MaxL
    /\ two_stream_mode \in TwoStreamModes
    /\ result_data \in ResultData
    /\ box_num \in BoxNums
    /\ data_index \in 0 .. Len(result_data)
    /\ crop_fails \in BOOLEAN
    /\ AU_box_dict \in (IF crop_fails THEN {<<>>} ELSE AUBoxDicts)
    /\ flow_face_list = <<>>
    /\ ds_bbox = <<>>
    /\ ds_label = <<>>
    /\ all_del_idx = <<>>
    /\ filtered_bbox = <<>>
    /\ filtered_label = <<>>
    /\ flow_path_list = <<>>
    /\ ds_pc = "start"
    /\ ds_err = "none"
    /\ ds_result = [returned |-> FALSE]

RaiseDS(err) ==
    /\ ds_pc' = "raised"
    /\ ds_err' = err
    /\ UNCHANGED ds_result

\* mutant: the entries of the window are collected whatever their sequence key
collect_flow_image_paths_AnySequence(idx) ==
    [k \in 1 .. Max2(Min2(idx + (L \div 2), Len(result_data)) - Max2(idx - (L \div 2), 0), 0) |->
        Max2(idx - (L \div 2), 0) + k - 1]

\* collect_flow_image_paths (lines 60-68): the 0-based positions of the entries collected
collect_flow_image_paths(idx) ==
    LET first == Max2(idx - (L \div 2), 0)
        last == Min2(idx + (L \div 2), Len(result_data))
        candidate == [k \in 1 .. Max2(last - first, 0) |-> first + k - 1]
    IN  SelectSeq(candidate, LAMBDA c : result_data[c + 1] = result_data[idx + 1])

\* np.pad(flow_face_list, ((0, rest_pad_len), ...), 'mean') when len < L
PadMean(faces, len) == faces \o [k \in 1 .. Max2(len - Len(faces), 0) |-> MeanFrame]

\* lines 106-142: the flow frames of example data_index
CollectFlowFaces ==
    /\ ds_pc = "start"
    /\ IF data_index >= Len(result_data)
       THEN \* self.result_data[i] (for i = len) or the explicit raise (for i > len)
            RaiseDS("IndexError") /\ UNCHANGED <<flow_path_list, flow_face_list>>
       ELSE \E paths \in {IF two_stream_mode \in {"optical_flow", "rgb_flow"}
                          THEN collect_flow_image_paths(data_index)
                          ELSE <<data_index>>} :
            \E stacked \in {PadMean(paths, L)} :
                /\ flow_path_list' = paths
                /\ IF paths = <<>>
                   THEN \* np.stack of an empty list
                        RaiseDS("ValueError") /\ UNCHANGED flow_face_list
                   ELSE IF Len(stacked) # L
                   THEN RaiseDS("AssertionError") /\ UNCHANGED flow_face_list
                   ELSE /\ flow_face_list' = stacked
                        /\ ds_pc' = "flow"
                        /\ UNCHANGED <<ds_err, ds_result>>
    /\ UNCHANGED <<L, two_stream_mode, result_data, box_num, data_index, crop_fails, AU_box_dict,
                   ds_bbox, ds_label, all_del_idx, filtered_bbox, filtered_label>>
    /\ UNCHANGED <<ptc_vars, tc_vars, rng_vars>>

\* lines 181-184: a symmetric AU with a single box gets that box twice
CoupleBoxList(entry) ==
    IF entry.symmetric /\ Len(entry.box_list) = 1
    THEN Append(entry.box_list, entry.box_list[1])
    ELSE entry.box_list

\* the box of the whole image, lines 160-161
WholeBox == <<1, 1, IMG_SIZE[2] - 1, IMG_SIZE[1] - 1>>

\* lines 144-193: the face crop; its fallback, or the boxes and labels of the crop
CropFace ==
    /\ ds_pc = "flow"
    /\ IF crop_fails
       THEN /\ ds_result' = [returned |-> TRUE,
                             flow_face_list |-> flow_face_list,
                             bbox |-> [k \in 1 .. box_num |-> WholeBox],
                             label |-> [k \in 1 .. box_num |-> ImageLabel]]
            /\ ds_pc' = "returned"
            /\ UNCHANGED <<ds_bbox, ds_label, ds_err>>
       ELSE LET couple_box_dict == [e \in 1 .. Len(AU_box_dict) |-> CoupleBoxList(AU_box_dict[e])]
                bbox == Concatenate(couple_box_dict)
                label == Concatenate([e \in 1 .. Len(couple_box_dict) |->
                                         [q \in 1 .. Len(couple_box_dict[e]) |-> e]])
            IN  IF Len(bbox) = 0
                THEN RaiseDS("AssertionError") /\ UNCHANGED <<ds_bbox, ds_label>>
                ELSE /\ ds_bbox' = bbox
                     /\ ds_label' = label
                     /\ ds_pc' = "assigned"
                     /\ UNCHANGED <<ds_err, ds_result>>
    /\ UNCHANGED <<L, two_stream_mode, result_data, box_num, data_index, crop_fails, AU_box_dict,
                   flow_path_list, flow_face_list, all_del_idx, filtered_bbox, filtered_label>>
    /\ UNCHANGED <<ptc_vars, tc_vars, rng_vars>>

\* lines 201-204: the 0-based positions of the boxes below 1% of the image area
SmallBoxIndices(bbox) ==
    Where([k \in 1 .. Len(bbox) |->
              100 * calculate_area(bbox[k][1], bbox[k][2], bbox[k][3], bbox[k][4])
                  < IMG_SIZE[1] * IMG_SIZE[2]])

\* del list[idx]
DelAt(list, idx) == SubSeq(list, 1, idx) \o SubSeq(list, idx + 2, Len(list))

RECURSIVE DeleteEach(_, _, _)
\* lines 205-207: for del_idx in all_del_idx: del bbox[del_idx]; del label[del_idx]
\* (each deletion is made in the list the earlier deletions have shortened)
DeleteEach(bbox, label, del_idxs) ==
    IF del_idxs = <<>> THEN [err |-> "none", bbox |-> bbox, label |-> label]
    ELSE IF Head(del_idxs) >= Len(bbox) THEN [err |-> "IndexError", bbox |-> bbox, label |-> label]
    ELSE DeleteEach(DelAt(bbox, Head(del_idxs)), DelAt(label, Head(del_idxs)), Tail(del_idxs))

RECURSIVE PadFront(_, _)
\* lines 209-212: while len(list) < n: list.insert(0, list[0])
PadFront(list, n) == IF Len(list) >= n THEN list ELSE PadFront(<<list[1]>> \o list, n)

\* mutant: a list that is too long is left as it is
TruncateTail_Skipped(list, n) == list

\* lines 213-215: while len(list) > n: del list[-1]
TruncateTail(list, n) == SubSeq(list, 1, Min2(n, Len(list)))

\* lines 195-222: the number of boxes is brought to config.BOX_NUM[database]
FixBoxCount ==
    /\ ds_pc = "assigned"
    /\ LET Return(bbox, label) ==
               /\ ds_result' = [returned |-> TRUE, flow_face_list |-> flow_face_list,
                                bbox |-> bbox, label |-> label]
               /\ ds_pc' = "returned"
               /\ UNCHANGED ds_err
       IN  IF Len(ds_bbox) = box_num
           THEN Return(ds_bbox, ds_label) /\ UNCHANGED <<all_del_idx, filtered_bbox, filtered_label>>
           ELSE \E del_idxs \in {IF Len(ds_bbox) > box_num THEN SmallBoxIndices(ds_bbox) ELSE <<>>} :
                \E kept \in {DeleteEach(ds_bbox, ds_label, del_idxs)} :
                    /\ all_del_idx' = del_idxs
                    /\ filtered_bbox' = kept.bbox
                    /\ filtered_label' = kept.label
                    /\ IF kept.err # "none"
                       THEN RaiseDS(kept.err)
                       ELSE IF kept.bbox = <<>> /\ box_num > 0
                       THEN \* bbox[index] of an empty list
                            RaiseDS("IndexError")
                       ELSE Return(TruncateTail(PadFront(kept.bbox, box_num), box_num),
                                   TruncateTail(PadFront(kept.label, box_num), box_num))
    /\ UNCHANGED <<L, two_stream_mode, result_data, box_num, data_index, crop_fails, AU_box_dict,
                   flow_path_list, flow_face_list, ds_bbox, ds_label>>
    /\ UNCHANGED <<ptc_vars, tc_vars, rng_vars>>

DSNext == CollectFlowFaces \/ CropFace \/ FixBoxCount

SpecDS == DSInit /\ [][DSNext]_vars

TypeOKDS == ds_pc \in {"start", "flow", "assigned", "returned", "raised"}

\* C20: whenever get_example returns, the box array and the label array it
\* returns have the same number of rows, config.BOX_NUM[database], whether the
\* crop failed (whole-image fallback) or gave that many, fewer or more boxes.
C20_ReturnsBoxNumRows ==
    ds_pc = "returned" =>
        /\ ds_result.returned
        /\ Len(ds_result.bbox) = box_num
        /\ Len(ds_result.label) = box_num

\* a returned example whose crop gave too many boxes, one of them below 1% of
\* the image area and some still to cut at the tail
C20_Witness ==
    /\ ds_pc = "returned"
    /\ ~ crop_fails
    /\ Len(ds_bbox) > box_num
    /\ Len(all_del_idx) = 1
    /\ Len(ds_bbox) - 1 > box_num

\* a returned example whose crop gave too few boxes
C20_WitnessTooFew ==
    /\ ds_pc = "returned"
    /\ ~ crop_fails
    /\ Len(ds_bbox) < box_num

\* a returned example whose crop gave the right number of boxes
C20_WitnessExact ==
    /\ ds_pc = "returned"
    /\ ~ crop_fails
    /\ Len(ds_bbox) = box_num

\* a returned example whose crop failed
C20_WitnessFallback ==
    /\ ds_pc = "returned"
    /\ crop_fails
    /\ ds_result.bbox[1] = WholeBox

\* the deletions of the area filter ran past the end of the shortened list
DeletionFailed == ds_pc = "raised" /\ ds_err = "IndexError" /\ all_del_idx # <<>>

\* no flow frame was collected (L = 1)
NoFlowFrame == ds_pc = "raised" /\ ds_err = "ValueError"

\* the crop gave no box at all
NoBox == ds_pc = "raised" /\ ds_err = "AssertionError" /\ AU_box_dict = <<>>

\* get_example has collected the flow frames of a valid index through
\* collect_flow_image_paths, with L >= 2
FlowCollected ==
    /\ ds_pc \notin {"idle", "start"}
    /\ data_index < Len(result_data)
    /\ L >= 2
    /\ two_stream_mode \in {"optical_flow", "rgb_flow"}

\* C22: for a valid index i and L >= 2, collect_flow_image_paths(i) returns, in
\* dataset order, only entries at positions max(i - L//2, 0) <= p < min(i + L//2, N)
\* that have the sequence key of entry i; it returns at most L entries and
\* entry i is one of them; the flow stack built from it has exactly L frames.
C22_FlowWindow ==
    FlowCollected =>
        /\ \A k \in 1 .. Len(flow_path_list) - 1 : flow_path_list[k] < flow_path_list[k + 1]
        /\ \A k \in 1 .. Len(flow_path_list) :
              /\ Max2(data_index - (L \div 2), 0) <= flow_path_list[k]
              /\ flow_path_list[k] < Min2(data_index + (L \div 2), Len(result_data))
              /\ result_data[flow_path_list[k] + 1] = result_data[data_index + 1]
        /\ Len(flow_path_list) <= L
        /\ data_index \in SeqRange(flow_path_list)
        /\ Len(flow_face_list) = L
        /\ \A k \in 1 .. Len(flow_path_list) : flow_face_list[k] = flow_path_list[k]

\* a window that holds an entry of another sequence, which is left out, and a
\* stack that is padded to L frames
C22_Witness ==
    /\ FlowCollected
    /\ ds_pc = "flow"
    /\ \E p \in Max2(data_index - (L \div 2), 0) .. Min2(data_index + (L \div 2), Len(result_data)) - 1 :
          result_data[p + 1] # result_data[data_index + 1]
    /\ Len(flow_path_list) >= 2
    /\ Len(flow_path_list) < L
    /\ flow_face_list[L] = MeanFrame

\* a window cut at the end of the dataset
C22_WitnessCutAtEnd ==
    /\ FlowCollected
    /\ ds_pc = "flow"
    /\ data_index + (L \div 2) > Len(result_data)
    /\ Len(flow_path_list) >= 2

\* a window cut at the start of the dataset
C22_WitnessCutAtStart ==
    /\ FlowCollected
    /\ ds_pc = "flow"
    /\ data_index - (L \div 2) < 0
    /\ Len(flow_path_list) >= 2

\* a window of L entries of one sequence: nothing is padded
C22_WitnessFullWindow ==
    /\ FlowCollected
    /\ ds_pc = "flow"
    /\ Len(flow_path_list) = L

\* the 0-based positions of the boxes of at least 1% of the image area
LargeBoxIndices(bbox) == SortedSeq(Range0(Len(bbox)) \ SeqRange(SmallBoxIndices(bbox)))

\* C21: when the crop gave more boxes than config.BOX_NUM[database], the area
\* filter (lines 200-207) does not fail with an index error, and the boxes and
\* labels it leaves are exactly those of the boxes of at least 1% of the image
\* area, in their order. (The only raise after a completed filter is bbox[0]
\* of a list the filter has emptied, line 211.)
C21_FilterRemovesExactlySmallBoxes ==
    (ds_pc \in {"returned", "raised"} /\ Len(ds_bbox) > box_num) =>
        /\ ds_pc = "raised" => filtered_bbox = <<>>
        /\ filtered_bbox = Take(ds_bbox, LargeBoxIndices(ds_bbox))
        /\ filtered_label = Take(ds_label, LargeBoxIndices(ds_bbox))

\* with at most one box below 1% of the image area the filter is exact
C21_ExactForOneSmallBox ==
    (ds_pc \in {"returned", "raised"} /\ Len(ds_bbox) > box_num /\ Len(all_del_idx) <= 1) =>
        /\ ds_pc = "returned"
        /\ filtered_bbox = Take(ds_bbox, LargeBoxIndices(ds_bbox))
        /\ filtered_label = Take(ds_label, LargeBoxIndices(ds_bbox))

\* boxes and labels are always deleted in pairs
C21_LabelsFollowBoxes ==
    /\ Len(filtered_bbox) = Len(filtered_label)
    /\ \A k \in 1 .. Len(filtered_bbox) : filtered_label[k] = filtered_bbox[k][1]

\* the filter ran with one small box and removed it
C21_WitnessOneSmallBox ==
    /\ ds_pc = "returned"
    /\ Len(ds_bbox) > box_num
    /\ Len(all_del_idx) = 1
    /\ Len(filtered_bbox) = Len(ds_bbox) - 1

\* the filter completed, kept a box below 1% of the image area and removed a
\* box above it
C21_WrongBoxRemoved ==
    /\ ds_pc = "returned"
    /\ Len(ds_bbox) > box_num
    /\ SmallBoxIndices(filtered_bbox) # <<>>
    /\ \E k \in SeqRange(LargeBoxIndices(ds_bbox)) : ds_bbox[k + 1] \notin SeqRange(filtered_bbox)

(***************************************************************************)
(* Properties of ProposalTargetCreator.__call__                            *)
(***************************************************************************)
Abs(x) == IF x < 0 THEN 0 - x ELSE x

\* round(n_sample * pos_ratio): the nearest integer, the even one at a tie
DesiredPositives ==
    CHOOSE r \in 0 .. (n_sample + 1) :
        LET d == 2 * Abs(n_sample * pos_ratio[1] - r * pos_ratio[2])
        IN  d < pos_ratio[2] \/ (d = pos_ratio[2] /\ r % 2 = 0)

\* the batch items whose iteration has completed (1-based positions of frames)
Processed == 1 .. Len(frames)

SegNumber(b) == batch_seg_info[b + 1][2]

\* C1: for every processed batch item the number of returned samples never
\* exceeds n_sample and the number of samples taken as positives (hence also of
\* samples with a foreground label) never exceeds round(n_sample * pos_ratio).
C1_SampleCountBounded ==
    \A i \in Processed :
        /\ Len(batch_rois[i]) <= n_sample
        /\ Len(batch_labels[i]) = Len(batch_rois[i])
        /\ Len(batch_rois_indices[i]) = Len(batch_rois[i])
        /\ Len(batch_roi_locs[i]) = Len(batch_rois[i])
        /\ Len(frames[i].pos_index) <= DesiredPositives
        /\ Cardinality({k \in 1 .. Len(batch_labels[i]) : batch_labels[i][k] # 0}) <= DesiredPositives

\* an item where both caps bind: more positives available than wanted, and more
\* eligible candidates than n_sample
C1_Witness ==
    \E i \in Processed :
        /\ DesiredPositives >= 1
        /\ Len(frames[i].pos_available) > DesiredPositives
        /\ Len(frames[i].pos_index) = DesiredPositives
        /\ Len(frames[i].pos_available) + Len(frames[i].neg_available) > n_sample
        /\ Len(batch_rois[i]) = n_sample

\* C2: in each processed item the samples are the selected positives followed
\* by the selected negatives, and every sample at or past the positive-count
\* boundary has label 0, whatever the label of its argmax ground truth.
C2_NegativeTailIsBackground ==
    \A i \in Processed :
        LET f == frames[i]
            np == f.pos_roi_this_timeline
        IN  /\ Len(f.pos_index) = np
            /\ Len(f.keep_index) = np + Len(f.neg_index)
            /\ \A k \in 1 .. Len(f.keep_index) :
                  /\ k <= np => /\ f.keep_index[k] = f.pos_index[k]
                                /\ f.keep_index[k] \in SeqRange(f.pos_available)
                  /\ k > np => /\ f.keep_index[k] = f.neg_index[k - np]
                               /\ f.keep_index[k] \in SeqRange(f.neg_available)
                               /\ batch_labels[i][k] = 0

\* a sampled negative whose argmax ground truth carries class id 1 (label 2)
C2_Witness ==
    \E i \in Processed :
        LET f == frames[i]
        IN  \E k \in 1 .. Len(f.keep_index) :
              /\ k > f.pos_roi_this_timeline
              /\ f.pos_roi_this_timeline >= 1
              /\ f.label[f.gt_assignment[f.keep_index[k] + 1] + 1] + 1 = 2
              /\ batch_labels[i][k] = 0

\* C3 as stated: a batch item with zero valid ground-truth segments makes the
\* call raise InvalidGroundTruthError and return nothing.
C3_RaisesInvalidGroundTruthError ==
    (ptc_pc \in {"returned", "raised"} /\ \E b \in Range0(mini_batch) : SegNumber(b) = 0)
        => (ptc_pc = "raised" /\ ptc_err = "InvalidGroundTruthError" /\ ptc_result = NoResult)

\* C3 (amended): an item with zero valid ground-truth segments is never
\* processed and the call never returns when there is one; the call stops at
\* the first such item with the ValueError of the argmax over zero columns, and
\* no result is returned.
C3_RaisesValueError ==
    /\ \A b \in Range0(b_id) : SegNumber(b) > 0
    /\ \A i \in Processed : Len(frames[i].gt_seg) > 0
    /\ ptc_pc = "returned" => \A b \in Range0(mini_batch) : SegNumber(b) > 0
    /\ ptc_pc = "raised" => /\ ptc_err = "ValueError"
                            /\ b_id < mini_batch
                            /\ SegNumber(b_id) = 0
                            /\ ptc_result = NoResult
    /\ (ptc_pc = "loop" /\ b_id < mini_batch /\ SegNumber(b_id) = 0)
          => (~ ENABLED ReturnPTC /\ ENABLED RaisePTC("ValueError"))

\* the call raised at the second item, after the first item was processed
C3_Witness ==
    /\ ptc_pc = "raised"
    /\ ptc_err = "ValueError"
    /\ b_id = 1
    /\ Len(batch_rois) = 1
    /\ SegNumber(1) = 0

\* C9: item b's pool is exactly the regions tagged b, in order, followed by
\* the first valid_count ground-truth segments of item b; the IoU matrix has
\* one row per pool member and one column per valid ground-truth segment (no
\* padding row, nothing of another item); every sample of item b is a member
\* of that pool and carries batch index b.
C9_ItemsNeverMixed ==
    /\ \A i \in Processed :
        LET f == frames[i]
            b == i - 1
            tagged == {k \in 1 .. Len(rois) : roi_indices[k] = b}
            nth(k) == Cardinality({j \in tagged : j <= k})
            n_gt == SegNumber(b)
        IN  /\ f.b_id = b
            /\ Len(f.all_rois) = Cardinality(tagged) + n_gt
            /\ \A k \in tagged : f.all_rois[nth(k)] = rois[k]
            /\ \A j \in 1 .. n_gt : f.all_rois[Cardinality(tagged) + j] = gt_segments[b + 1][j]
            /\ f.gt_seg = [j \in 1 .. n_gt |-> gt_segments[b + 1][j]]
            /\ f.label = [j \in 1 .. n_gt |-> gt_labels[b + 1][j]]
            /\ Len(f.max_iou) = Len(f.all_rois)
            /\ \A k \in 1 .. Len(f.all_rois) : f.gt_assignment[k] \in Range0(n_gt)
            /\ \A k \in 1 .. Len(batch_rois[i]) :
                  /\ f.keep_index[k] \in Range0(Len(f.all_rois))
                  /\ batch_rois[i][k] = f.all_rois[f.keep_index[k] + 1]
                  /\ batch_rois_indices[i][k] = b
    /\ ptc_pc = "returned" =>
          /\ Len(ptc_result.roi_indices) = Len(ptc_result.rois)
          /\ \A b \in Range0(mini_batch) :
                Cardinality({k \in 1 .. Len(ptc_result.roi_indices) : ptc_result.roi_indices[k] = b})
                    = Len(batch_rois[b + 1])
          /\ \A k \in 1 .. Len(ptc_result.roi_indices) : \A j \in 1 .. k :
                ptc_result.roi_indices[j] <= ptc_result.roi_indices[k]

\* the call returned for two items; a region of item 0 exists, item 1 has a
\* padding row, and item 1 contributed samples
C9_Witness ==
    /\ ptc_pc = "returned"
    /\ mini_batch = 2
    /\ \E k \in 1 .. Len(rois) : roi_indices[k] = 0
    /\ SegNumber(1) < Len(gt_segments[2])
    /\ Len(batch_rois[2]) >= 1
    /\ Len(batch_rois[1]) >= 1

\* the label array and the ground-truth segment array of the call disagree in
\* batch size, or some batch item has fewer label rows than valid segments
\* (rows past the valid count are padding and are not counted)
ShapeMismatch ==
    \/ Len(gt_labels) # Len(gt_segments)
    \/ \E b \in 1 .. Min2(Len(gt_labels), Len(gt_segments)) :
          Len(ValidRows(gt_labels[b], batch_seg_info[b][2]))
              # Len(ValidRows(gt_segments[b], batch_seg_info[b][2]))

\* C12: when the label array and the ground-truth segment array have
\* mismatched dimensions (batch size, or valid rows of a batch item), the call
\* fails before any item is matched or sampled and returns no result.
C12_MismatchFailsBeforeMatching ==
    ShapeMismatch =>
        /\ ptc_pc # "returned"
        /\ frames = <<>>
        /\ ptc_result = NoResult

\* C12, the part the code checks: a label array whose batch size differs from
\* that of the segment array fails the assertion before the loop.
C12_BatchMismatchFailsAssertion ==
    Len(gt_labels) # Len(gt_segments) =>
        /\ ptc_pc \in {"start", "raised"}
        /\ ptc_pc = "raised" => ptc_err = "AssertionError"
        /\ frames = <<>>
        /\ ptc_result = NoResult

\* a label array with too few rows made the call fail at the second item, after
\* the first item had been matched and sampled
C12_LateFailure ==
    /\ ptc_pc = "raised"
    /\ ptc_err = "IndexError"
    /\ Len(frames) = 1

\* the call returned a result although an item had fewer label rows than valid segments
C12_SilentReturn ==
    /\ ptc_pc = "returned"
    /\ ShapeMismatch

\* the IoU of pool member k (1-based) of a processed item with ground truth j
IoUOf(f, k, j) == SegmentIoU(f.all_rois[k], f.gt_seg[j])

\* x is the maximum IoU of pool member k over the item's valid ground truth
IsMaxIoU(f, k, x) ==
    /\ \E j \in 1 .. Len(f.gt_seg) : FracGE(IoUOf(f, k, j), x) /\ FracGE(x, IoUOf(f, k, j))
    /\ \A j \in 1 .. Len(f.gt_seg) : FracGE(x, IoUOf(f, k, j))

\* C13: a candidate is eligible as a positive exactly when its maximum IoU over
\* the item's ground truth is >= pos_iou_thresh, eligible as a negative exactly
\* when neg_iou_thresh_lo <= maximum IoU < neg_iou_thresh_hi, and a candidate
\* that is neither is never among the samples.
C13_EligibilityByThreshold ==
    \A i \in Processed :
        LET f == frames[i]
        IN  \A k \in 1 .. Len(f.all_rois) :
              LET x == f.max_iou[k]
                  pos == x[1] * thresh.pos[2] >= thresh.pos[1] * x[2]
                  neg == /\ x[1] * thresh.lo[2] >= thresh.lo[1] * x[2]
                         /\ x[1] * thresh.hi[2] < thresh.hi[1] * x[2]
              IN  /\ IsMaxIoU(f, k, x)
                  /\ (k - 1 \in SeqRange(f.pos_available)) <=> pos
                  /\ (k - 1 \in SeqRange(f.neg_available)) <=> neg
                  /\ (k - 1 \in SeqRange(f.pos_index)) => pos
                  /\ (k - 1 \in SeqRange(f.neg_index)) => neg
                  /\ (~ pos /\ ~ neg) => k - 1 \notin SeqRange(f.keep_index)

\* an item with a sampled positive, a sampled negative and a candidate that is
\* neither and was dropped
C13_Witness ==
    \E i \in Processed :
        LET f == frames[i]
        IN  /\ Len(f.pos_index) >= 1
            /\ Len(f.neg_index) >= 1
            /\ \E k \in 1 .. Len(f.all_rois) :
                  /\ k - 1 \notin SeqRange(f.pos_available)
                  /\ k - 1 \notin SeqRange(f.neg_available)
                  /\ k - 1 \notin SeqRange(f.keep_index)

\* a candidate whose maximum IoU is exactly pos_iou_thresh was sampled as a positive
C13_WitnessAtThreshold ==
    \E i \in Processed :
        \E k \in 1 .. Len(frames[i].pos_index) :
            LET x == frames[i].max_iou[frames[i].pos_index[k] + 1]
            IN  x[1] * thresh.pos[2] = thresh.pos[1] * x[2]

C14_WitnessNoPositives ==
    \E i \in Processed :
        LET f == frames[i]
        IN  /\ Len(f.pos_available) = 0
            /\ Len(f.neg_available) > n_sample
            /\ Len(batch_rois[i]) = n_sample

\* C15: every valid ground-truth segment of an item is a member of the item's
\* pool (after the item's regions) and, for pos_iou_thresh <= 1, is eligible as
\* a positive; so an item with a valid ground-truth segment and
\* round(n_sample * pos_ratio) >= 1 gets at least one positive sample.
C15_GroundTruthIsPositive ==
    \A i \in Processed :
        LET f == frames[i]
            b == i - 1
            n_gt == SegNumber(b)
            n_roi == Cardinality({k \in 1 .. Len(rois) : roi_indices[k] = b})
            reachable == thresh.pos[1] <= thresh.pos[2]
        IN  /\ Len(f.all_rois) = n_roi + n_gt
            /\ \A j \in 1 .. n_gt :
                  /\ f.all_rois[n_roi + j] = gt_segments[b + 1][j]
                  /\ reachable => (n_roi + j - 1) \in SeqRange(f.pos_available)
            /\ (reachable /\ n_gt >= 1 /\ DesiredPositives >= 1) =>
                  /\ Len(f.pos_index) >= 1
                  /\ f.pos_roi_this_timeline >= 1
                  /\ batch_labels[i][1] # 0

\* an item without regions of its own, whose only positives are its ground truth
C15_Witness ==
    \E i \in Processed :
        LET f == frames[i]
        IN  /\ thresh.pos[1] <= thresh.pos[2]
            /\ DesiredPositives >= 1
            /\ Len(f.all_rois) = Len(f.gt_seg)
            /\ Len(f.gt_seg) >= 1
            /\ Len(f.pos_index) >= 1

\* an item whose regions are no positives: every positive is a ground-truth segment
C15_WitnessRegionsBelowThreshold ==
    \E i \in Processed :
        LET f == frames[i]
            n_roi == Len(f.all_rois) - Len(f.gt_seg)
        IN  /\ n_roi >= 1
            /\ \A k \in 1 .. n_roi : k - 1 \notin SeqRange(f.pos_available)
            /\ Len(f.pos_index) >= 1

\* ground truth j (1-based) of item b is the first one with which roi has its
\* maximum IoU
IsArgMaxGt(b, roi, j) ==
    /\ \A j2 \in 1 .. SegNumber(b) :
          FracGE(SegmentIoU(roi, gt_segments[b + 1][j]), SegmentIoU(roi, gt_segments[b + 1][j2]))
    /\ \A j2 \in 1 .. (j - 1) :
          FracLT(SegmentIoU(roi, gt_segments[b + 1][j2]), SegmentIoU(roi, gt_segments[b + 1][j]))

\* C17: every sample returned as a positive carries the label of the ground-
\* truth segment with which it has the maximum IoU (the first such segment of
\* the item's valid ground truth) plus 1, and its regression target is the
\* normalized encoding of the sample against that same segment.
C17_PositiveCarriesArgmaxLabel ==
    \A i \in Processed :
        LET f == frames[i]
            b == i - 1
        IN  \A k \in 1 .. f.pos_roi_this_timeline :
              LET roi == f.all_rois[f.keep_index[k] + 1]
              IN  /\ batch_rois[i][k] = roi
                  /\ \E j \in 1 .. SegNumber(b) :
                        /\ IsArgMaxGt(b, roi, j)
                        /\ batch_labels[i][k] = gt_labels[b + 1][j] + 1
                        /\ <<batch_roi_locs[i][k]>> =
                               Normalize(<<EncodeOne(roi, gt_segments[b + 1][j])>>)

\* a positive sample that is a region (not a ground-truth segment), differs
\* from the segment it is matched to, and is matched to the second segment
C17_Witness ==
    \E i \in Processed :
        LET f == frames[i]
        IN  \E k \in 1 .. f.pos_roi_this_timeline :
              /\ f.keep_index[k] < Len(f.all_rois) - Len(f.gt_seg)
              /\ f.gt_assignment[f.keep_index[k] + 1] = 1
              /\ f.gt_seg[2] # f.all_rois[f.keep_index[k] + 1]
              /\ f.label[2] # f.label[1]
              /\ batch_labels[i][k] = f.label[2] + 1

\* C19: when neg_iou_thresh_hi <= pos_iou_thresh, the selected positive indices
\* and the selected negative indices of an item are disjoint and free of
\* repeats: the item's samples are distinct members of its pool.
C19_NoCandidateSelectedTwice ==
    thresh.hi[1] * thresh.pos[2] <= thresh.pos[1] * thresh.hi[2] =>
        \A i \in Processed :
            LET f == frames[i]
            IN  /\ SeqRange(f.pos_index) \cap SeqRange(f.neg_index) = {}
                /\ Cardinality(SeqRange(f.pos_index)) = Len(f.pos_index)
                /\ Cardinality(SeqRange(f.neg_index)) = Len(f.neg_index)
                /\ Cardinality(SeqRange(f.keep_index)) = Len(f.keep_index)
                /\ SeqRange(f.keep_index) \subseteq Range0(Len(f.all_rois))
                /\ Len(batch_rois[i]) = Len(f.keep_index)

\* an item where two positives were drawn, and a negative from several
C19_Witness ==
    \E i \in Processed :
        LET f == frames[i]
        IN  /\ thresh.hi[1] * thresh.pos[2] <= thresh.pos[1] * thresh.hi[2]
            /\ Len(f.pos_index) >= 2
            /\ Len(f.neg_index) >= 1
            /\ Len(f.neg_available) > Len(f.neg_index)

(***************************************************************************)
(* Properties of FasterRCNNTrainChain.__call__                             *)
(***************************************************************************)
\* nonzero entries of the label matrix that reaches the selection
GtPositive == {e \in Entries(gt_roi_label) : At(gt_roi_label, e) # 0}

\* entries of the label matrix equal to 0
GtNegative == {e \in Entries(gt_roi_label) : At(gt_roi_label, e) = 0}

\* entries whose score is above the threshold 0
PredPositive == {e \in Entries(roi_score) : At(roi_score, e) > 0}

FalsePositive == PredPositive \ GtPositive

TargetNegatives == neg_pos_ratio * Max2(1, Cardinality(GtPositive))

\* the selection (lines 113-146) has run, to completion or to a failure
SelectionRan == tc_pc \in {"done", "raised"} /\ Len(roi_score) > 0 /\ tc_err # "AssertionError"

\* C4: when the selection completes, the loss-index set is the ground-truth-
\* positive entries united with the sampled negatives (which are label-0
\* entries): every ground-truth positive is in it and nothing else is.
C4_LossIndexIsUnion ==
    tc_pc = "done" =>
        /\ SeqRange(pick_index) = GtPositive \cup SeqRange(neg_picked)
        /\ GtPositive \subseteq SeqRange(pick_index)
        /\ SeqRange(neg_picked) \subseteq GtNegative
        /\ SeqRange(pick_index) \subseteq Entries(gt_roi_label)

\* completed selection with ground-truth positives, a false positive among the
\* sampled negatives and a sampled true negative
C4_Witness ==
    /\ tc_pc = "done"
    /\ GtPositive # {}
    /\ SeqRange(neg_picked) \cap FalsePositive # {}
    /\ SeqRange(neg_picked) \ FalsePositive # {}
    /\ GtNegative \ SeqRange(pick_index) # {}

\* C5: the accuracy-index set is the union of the ground-truth-positive and the
\* predicted-positive (score > 0) entries, hence contains every ground-truth
\* positive; when the union is empty it is the (empty) ground-truth-positive set.
C5_AccuracyIndexIsUnion ==
    tc_pc = "done" =>
        /\ SeqRange(accuracy_pick_index) = GtPositive \cup PredPositive
        /\ union_gt = GtPositive \cup PredPositive
        /\ GtPositive \subseteq SeqRange(accuracy_pick_index)
        /\ Len(accuracy_pick_index) = Cardinality(GtPositive \cup PredPositive)
        /\ (GtPositive \cup PredPositive = {}) => accuracy_pick_index = <<>>

\* completed selection with a missed positive, a false positive, and a label-0
\* entry scored exactly 0 that stays out of the accuracy set
C5_Witness ==
    /\ tc_pc = "done"
    /\ GtPositive \ PredPositive # {}
    /\ FalsePositive # {}
    /\ \E e \in GtNegative : At(roi_score, e) = 0 /\ e \notin SeqRange(accuracy_pick_index)

\* C6: the target negative count is neg_pos_ratio * max(1, number of ground-
\* truth positives); for an all-zero label matrix (neg_pos_ratio = 3) it is 3
\* and the loss-index set has at most 3 entries.
C6_TargetNegativeCount ==
    /\ SelectionRan => neg_pick_count = TargetNegatives
    /\ (SelectionRan /\ GtPositive = {}) => neg_pick_count = 3
    /\ (tc_pc = "done" /\ GtPositive = {}) =>
          /\ Len(pick_index) <= 3
          /\ Cardinality(SeqRange(pick_index)) <= 3

\* completed selection on an all-zero label matrix with more than 3 entries
C6_Witness ==
    /\ tc_pc = "done"
    /\ GtPositive = {}
    /\ Cardinality(Entries(gt_roi_label)) > 3
    /\ neg_pick_count = 3
    /\ Len(pick_index) = 3

\* C7: when the selection completes, the sampled negatives are exactly target-
\* many distinct entries, none ground-truth-positive: all false positives if
\* there are at least target-many false positives; otherwise every false
\* positive plus (target - #false positives) other label-0 entries.  The loss-
\* index set then has exactly #ground-truth-positive + target entries.
C7_SampledNegatives ==
    tc_pc = "done" =>
        LET sampled == SeqRange(neg_picked)
            n_fp == Cardinality(FalsePositive)
        IN  /\ Len(neg_picked) = TargetNegatives
            /\ Cardinality(sampled) = TargetNegatives
            /\ sampled \cap GtPositive = {}
            /\ n_fp >= TargetNegatives => sampled \subseteq FalsePositive
            /\ n_fp < TargetNegatives =>
                  /\ FalsePositive \subseteq sampled
                  /\ (sampled \ FalsePositive) \subseteq (GtNegative \ FalsePositive)
                  /\ Cardinality(sampled \ FalsePositive) = TargetNegatives - n_fp
            /\ Len(pick_index) = Cardinality(GtPositive) + TargetNegatives
            /\ Cardinality(SeqRange(pick_index)) = Cardinality(GtPositive) + TargetNegatives

\* completed selection that took both false positives there were and filled up
\* from a pool larger than the remainder
C7_Witness ==
    /\ tc_pc = "done"
    /\ GtPositive # {}
    /\ Cardinality(FalsePositive) = 2
    /\ Cardinality(FalsePositive) < TargetNegatives
    /\ Cardinality(GtNegative \ FalsePositive) > TargetNegatives - Cardinality(FalsePositive)

\* completed selection that sampled among more false positives than the target
C7_WitnessManyFalsePositives ==
    /\ tc_pc = "done"
    /\ Cardinality(FalsePositive) > TargetNegatives

\* the false positives are fewer than the target and the label-0 entries not
\* yet selected are fewer than the remainder
PoolTooSmall ==
    /\ Cardinality(FalsePositive) < TargetNegatives
    /\ Cardinality(GtNegative \ FalsePositive) < TargetNegatives - Cardinality(FalsePositive)

\* C8 as stated: with too small a pool the selection fails with a
\* SamplingExhaustionError and never returns fewer negatives than the target.
C8_RaisesSamplingExhaustionError ==
    /\ (SelectionRan /\ PoolTooSmall) => (tc_pc = "raised" /\ tc_err = "SamplingExhaustionError")
    /\ tc_pc = "done" => Len(neg_picked) >= TargetNegatives

\* C8 (amended): with too small a pool the selection fails with the ValueError
\* of np.random.choice, leaving no loss-index set; a completed selection never
\* holds fewer sampled negatives than the target.
C8_RaisesValueError ==
    /\ (SelectionRan /\ PoolTooSmall) =>
          (tc_pc = "raised" /\ tc_err = "ValueError" /\ pick_index = <<>>)
    /\ tc_pc = "done" => (~ PoolTooSmall /\ Len(neg_picked) >= TargetNegatives)

\* the selection failed although label-0 entries were left to draw from
C8_Witness ==
    /\ tc_pc = "raised"
    /\ tc_err = "ValueError"
    /\ Len(roi_score) > 0
    /\ GtPositive # {}
    /\ FalsePositive # {}
    /\ GtNegative \ FalsePositive # {}
    /\ PoolTooSmall

\* label entries carrying the ignore value -1
Ignored == {e \in Entries(gt_roi_label) : At(gt_roi_label, e) = -1}

\* label entries carrying the value 1 (AU present)
Present == {e \in Entries(gt_roi_label) : At(gt_roi_label, e) = 1}

\* label entries carrying any other nonzero value
OtherNonzero == {e \in Entries(gt_roi_label) : At(gt_roi_label, e) \notin {-1, 0, 1}}

\* C16: every nonzero label entry, the ignore value -1 included, is treated as
\* ground-truth-positive: it counts toward the target negative count, is never
\* a false positive (even with a score > 0) nor a sampled negative, and is in
\* the loss-index set and in the accuracy-index set of a completed selection.
C16_NonzeroLabelIsPositive ==
    /\ SelectionRan =>
          /\ neg_pick_count =
                 neg_pos_ratio *
                   Max2(1, Cardinality(Present) + Cardinality(Ignored) + Cardinality(OtherNonzero))
          /\ \A e \in Ignored \cup Present \cup OtherNonzero :
                 e \notin SeqRange(false_positive_index)
    /\ tc_pc = "done" =>
          \A e \in Ignored \cup Present \cup OtherNonzero :
              /\ e \in SeqRange(pick_index)
              /\ e \in SeqRange(accuracy_pick_index)
              /\ e \notin SeqRange(neg_picked)

\* a completed selection with an ignored entry scored above 0, a present entry
\* and a false positive
C16_Witness ==
    /\ tc_pc = "done"
    /\ \E e \in Ignored : At(roi_score, e) > 0 /\ e \in SeqRange(pick_index)
    /\ Present # {}
    /\ false_positive_index # <<>>

\* C18: the selection completes without a sampling failure exactly when
\* neg_pos_ratio * max(1, number of nonzero label entries) is at most the
\* number of label entries equal to 0; with neg_pos_ratio = 3 it fails whenever
\* the nonzero entries exceed one third of the zero entries.
C18_CompletesIffEnoughZeros ==
    SelectionRan =>
        LET nonzero == Cardinality({e \in Entries(gt_roi_label) : At(gt_roi_label, e) # 0})
            zero == Cardinality({e \in Entries(gt_roi_label) : At(gt_roi_label, e) = 0})
        IN  /\ (tc_pc = "done") <=> (neg_pos_ratio * Max2(1, nonzero) <= zero)
            /\ (tc_pc = "raised") <=> (neg_pos_ratio * Max2(1, nonzero) > zero)
            /\ tc_pc = "raised" => tc_err = "ValueError"
            /\ 3 * nonzero > zero => tc_pc = "raised"

\* a selection that completed with exactly as many zero entries as needed,
\* some of them false positives
C18_Witness ==
    /\ tc_pc = "done"
    /\ GtPositive # {}
    /\ Cardinality(GtNegative) = neg_pos_ratio * Cardinality(GtPositive)
    /\ FalsePositive # {}
    /\ SeqRange(neg_picked) = GtNegative

\* a selection that failed with two zero entries too few
C18_WitnessTooFew ==
    /\ tc_pc = "raised"
    /\ tc_err = "ValueError"
    /\ Len(roi_score) > 0
    /\ Cardinality(GtNegative) + 2 = neg_pos_ratio * Max2(1, Cardinality(GtPositive))

\* the rows of item n (1-based) of the bboxes argument that are not filler
RealRowsOf(n) == SortedSeq({j \in 1 .. Len(bboxes[n]) : bboxes[n][j] # FillerBox})

\* the regions that go on to scoring and selection contain no filler, keep the
\* real rows in order with their labels, and carry their item's batch index
FillerStripped ==
    /\ sample_roi_lst =
          Concatenate([n \in 1 .. Len(bboxes) |->
              [i \in 1 .. Len(RealRowsOf(n)) |-> bboxes[n][RealRowsOf(n)[i]]]])
    /\ gt_roi_label =
          Concatenate([n \in 1 .. Len(bboxes) |->
              [i \in 1 .. Len(RealRowsOf(n)) |-> labels[n][RealRowsOf(n)[i]]]])
    /\ sample_roi_index_lst =
          Concatenate([n \in 1 .. Len(bboxes) |-> [i \in 1 .. Len(RealRowsOf(n)) |-> n - 1]])
    /\ \A r \in 1 .. Len(sample_roi_lst) : \A c \in 1 .. 4 : sample_roi_lst[r][c] # Filler
    /\ \A r \in 1 .. Len(gt_roi_label) : \A c \in 1 .. NumClasses : gt_roi_label[r][c] # Filler

\* C10 as stated: for every batch size, 1 included, the -99 filler rows are
\* stripped from boxes and labels before scoring and loss-index selection.
C10_FillerStrippedForEveryBatchSize ==
    tc_pc \in {"built", "scored", "done"} => FillerStripped

\* C10, the part the code satisfies: for batch sizes above 1 the filler rows are
\* stripped before scoring and loss-index selection.
C10_FillerStrippedWhenBatched ==
    (tc_pc \in {"built", "scored", "done"} /\ Len(bboxes) > 1) => FillerStripped

\* a batch of two items, one of them padded, went through the selection
C10_WitnessBatched ==
    /\ tc_pc = "done"
    /\ Len(bboxes) = 2
    /\ \E n \in 1 .. 2 : Len(RealRowsOf(n)) < Len(bboxes[n])

====
